---- MODULE Spec2Model ----
(***************************************************************************)
(* Model of the FTP server core of AntiPaste/ftpserver:                    *)
(*   server/server.go          FtpServer: accept loop, registry, Stop      *)
(*   server/client_handler.go  clientHandler: HandleCommands, transfers    *)
(*   driver interfaces         ServerDriver, Settings                      *)
(*                                                                         *)
(* Every goroutine is a process of the model: the accept loop              *)
(* (ListenAndServe), one HandleCommands goroutine per accepted connection, *)
(* and the goroutine that calls Stop().                                    *)
(***************************************************************************)
EXTENDS Integers, Sequences, FiniteSets, TLC

VARIABLES
    sess,              \* slot -> the clientHandler object of that slot and its goroutine's position
    connectionsById,   \* FtpServer.connectionsById: a function from ids to slots
    connectionsMutex,  \* FtpServer.connectionsMutex: "unlocked" or "locked"
    clientCounter,     \* FtpServer.clientCounter (uint32, as two 16-bit halves)
    Listener,          \* FtpServer.Listener: "nil", "open" or "closed"
    MaxConnections,    \* FtpServer.Settings.MaxConnections (0 while Settings is unset)
    accept,            \* position of the ListenAndServe goroutine
    stop               \* position and locals of the goroutine running Stop()

vars == <<sess, connectionsById, connectionsMutex, clientCounter, Listener,
          MaxConnections, accept, stop>>

(***************************************************************************)
(* Bounds of the model.                                                    *)
(***************************************************************************)
\* Number of clientHandler objects (connections) one run of Spec holds.
MaxSessions == 2

\* Number of clientHandler objects (connections) one run of SpecSession holds.
MaxSoloSessions == 1

Slots == 1..MaxSessions

(***************************************************************************)
(* uint32 arithmetic.  TLC's integers are 32-bit signed, so a uint32 is    *)
(* kept as <<high half, low half>> with both halves in 0..HalfWord-1.      *)
(***************************************************************************)
HalfWord == 65536

U32(hi, lo) == <<hi, lo>>

U32Zero == U32(0, 0)

U32Max == U32(HalfWord - 1, HalfWord - 1)

\* x + 1 on a uint32: wraps to 0 after 2^32 - 1.
U32Inc(x) ==
    IF x[2] + 1 < HalfWord
    THEN U32(x[1], x[2] + 1)
    ELSE U32((x[1] + 1) % HalfWord, 0)

(***************************************************************************)
(* Strings are sequences of one-character strings, so that parseLine and   *)
(* strings.ToUpper are computed as the code computes them.                 *)
(***************************************************************************)
LowerLetters == <<"a","b","c","d","e","f","g","h","i","j","k","l","m",
                  "n","o","p","q","r","s","t","u","v","w","x","y","z">>

UpperLetters == <<"A","B","C","D","E","F","G","H","I","J","K","L","M",
                  "N","O","P","Q","R","S","T","U","V","W","X","Y","Z">>

ToUpperChar(ch) ==
    IF \E i \in 1..Len(LowerLetters) : LowerLetters[i] = ch
    THEN UpperLetters[CHOOSE i \in 1..Len(LowerLetters) : LowerLetters[i] = ch]
    ELSE ch

\* strings.ToUpper
ToUpper(str) == [i \in 1..Len(str) |-> ToUpperChar(str[i])]

\* strings.Trim(s, cutset): drops the leading and the trailing characters of cutset.
RECURSIVE TrimLeft(_, _)
TrimLeft(str, cutset) ==
    IF str # <<>> /\ Head(str) \in cutset
    THEN TrimLeft(Tail(str), cutset)
    ELSE str

RECURSIVE TrimRight(_, _)
TrimRight(str, cutset) ==
    IF str # <<>> /\ str[Len(str)] \in cutset
    THEN TrimRight(SubSeq(str, 1, Len(str) - 1), cutset)
    ELSE str

Trim(str, cutset) == TrimRight(TrimLeft(str, cutset), cutset)

\* strings.TrimSpace
WhiteSpace == {" ", "\t", "\n", "\r"}

TrimSpace(str) == Trim(str, WhiteSpace)

\* strings.SplitN(s, " ", 2): one part when s holds no space, else the text
\* before the first space and everything after it.
SplitN2(str) ==
    IF \E i \in 1..Len(str) : str[i] = " "
    THEN LET i == CHOOSE k \in 1..Len(str) :
                      str[k] = " " /\ \A j \in 1..(k - 1) : str[j] # " "
         IN <<SubSeq(str, 1, i - 1), SubSeq(str, i + 1, Len(str))>>
    ELSE <<str>>

\* parseLine(line): <<command, param>>
parseLine(line) ==
    LET params == SplitN2(Trim(line, {"\r", "\n"}))
    IN IF Len(params) = 1
       THEN <<params[1], <<>>>>
       ELSE <<params[1], TrimSpace(params[2])>>

(***************************************************************************)
(* The command table filled by init().                                     *)
(***************************************************************************)
USER == <<"U","S","E","R">>
PASS == <<"P","A","S","S">>
PASV == <<"P","A","S","V">>
EPSV == <<"E","P","S","V">>
RETR == <<"R","E","T","R">>
STOR == <<"S","T","O","R">>
APPE == <<"A","P","P","E">>
QUIT == <<"Q","U","I","T">>
NOOP == <<"N","O","O","P">>
RNFR == <<"R","N","F","R">>
RNTO == <<"R","N","T","O">>

commandsMap ==
    { USER, PASS,
      <<"S","I","Z","E">>, <<"M","D","T","M">>, RETR, STOR, APPE,
      <<"D","E","L","E">>, RNFR, RNTO,
      <<"A","L","L","O">>, <<"R","E","S","T">>,
      <<"C","W","D">>, <<"P","W","D">>, <<"C","D","U","P">>,
      <<"N","L","S","T">>, <<"L","I","S","T">>, <<"M","K","D">>, <<"R","M","D">>,
      <<"T","Y","P","E">>, PASV, EPSV, QUIT,
      <<"A","U","T","H">>, <<"P","R","O","T">>, <<"P","B","S","Z">>,
      <<"F","E","A","T">>, <<"S","Y","S","T">>, NOOP, <<"O","P","T","S">> }

(***************************************************************************)
(* Lines a client may send on the control connection.                      *)
(***************************************************************************)
CRLF == <<"\r", "\n">>

LineUSER == USER \o <<" ", "a">> \o CRLF

LinePASS == PASS \o <<" ", "x">> \o CRLF

LinePASV == PASV \o CRLF

\* two spaces after the verb and one after the argument: TrimSpace has work to do
LineRETR == RETR \o <<" ", " ", "f", " ">> \o CRLF

LineQUIT == QUIT \o CRLF

\* a verb in lower case, terminated by a bare line feed
LineNoop == <<"n","o","o","p","\n">>

\* a verb that is no key of commandsMap
LineXyz == <<"x","y","z"," ","f">> \o CRLF

LineRNFR == RNFR \o <<" ", "a">> \o CRLF

LineRNTO == RNTO \o <<" ", "b">> \o CRLF

\* the lines the client sends in the specification SpecRename
RenameLines == {LinePASS, LineRNFR, LineRNTO}

\* the lines clients send in the specification Spec
ServerLines == {LinePASS, LinePASV, LineRETR, LineQUIT, LineNoop, LineXyz}

\* the lines the client sends in the specification SpecSession
SessionLines == ServerLines \cup {LineUSER}

(***************************************************************************)
(* clientHandler objects.                                                  *)
(***************************************************************************)
\* What a session wrote or called, in order, since it read its last line.
Send(code, message) == [ev |-> "send", code |-> code, msg |-> message]

Call(name) == [ev |-> name, code |-> 0, msg |-> ""]

\* An unused slot: no connection has been accepted for it yet.  The field
\* debug is the last line about this client that clientArrival or
\* clientDeparture wrote to daddy.debugStream; the field renamed holds the
\* arguments (from, to) of the last driver.RenameFile call made for it.
NoSession ==
    [pc |-> "none", Id |-> U32Zero, conn |-> "open", reader |-> "set",
     user |-> <<>>, isAuthed |-> FALSE, command |-> <<>>, param |-> <<>>,
     transfer |-> "nil", arrivalErr |-> FALSE, ret |-> "none", out |-> <<>>,
     debug |-> "", ctx_rnfr |-> <<>>, renamed |-> <<>>]

\* Mutant of NewHandler: the new object already holds a rename source.
NewHandler_PendingSource(id) ==
    [NoSession EXCEPT !.pc = "start", !.Id = id, !.ctx_rnfr = <<"a">>]

\* The object NewClientHandler builds, for the id it was given, with its
\* HandleCommands goroutine about to start.
NewHandler(id) == [NoSession EXCEPT !.pc = "start", !.Id = id]

\* NewClientHandler: the counter after "server.clientCounter += 1"
NewClientCounter(counter) == U32Inc(counter)

\* writeLine: the line, then "\r\n", then Flush, on the control connection
writeLine(c, line) == [c EXCEPT !.out = Append(@, line)]

\* writeMessage(code, message)
writeMessage(c, code, message) == writeLine(c, Send(code, message))

\* disconnect(): c.conn.Close()
disconnect(c) == [c EXCEPT !.conn = "closed"]

\* Mutant of TransferOpen: Open() is called before the 150 is written.
TransferOpen_OpenBefore150(c, opened) ==
    IF c.transfer # "nil"
    THEN LET c1 == [c EXCEPT !.out = Append(@, Call("Open")),
                             !.transfer = IF opened THEN "open" ELSE @,
                             !.ret = IF opened THEN "conn" ELSE "err"]
         IN writeMessage(c1, 150, "Using transfer connection")
    ELSE [writeMessage(c, 550, "No passive connection declared")
            EXCEPT !.ret = "err"]

\* Mutant of TransferClose: the reference to the channel is not cleared.
TransferClose_KeepsReference(c) ==
    IF c.transfer # "nil"
    THEN LET c1 == writeMessage(c, 226, "Closing transfer connection")
         IN [c1 EXCEPT !.out = Append(@, Call("Close"))]
    ELSE c

\* Mutant of IsTransferClosed: true unless the channel has been opened.
IsTransferClosed_UnlessOpen(c) == c.transfer # "open"

\* IsTransferClosed(): c.transfer == nil
IsTransferClosed(c) == c.transfer = "nil"

\* TransferOpen(): opened says whether the channel's Open() succeeds.  The
\* result is left in ret: "conn" (a stream, nil error) or "err".
TransferOpen(c, opened) ==
    IF c.transfer # "nil"
    THEN LET c1 == writeMessage(c, 150, "Using transfer connection")
         IN [c1 EXCEPT !.out = Append(@, Call("Open")),
                       !.transfer = IF opened THEN "open" ELSE @,
                       !.ret = IF opened THEN "conn" ELSE "err"]
    ELSE [writeMessage(c, 550, "No passive connection declared")
            EXCEPT !.ret = "err"]

\* TransferClose()
TransferClose(c) ==
    IF c.transfer # "nil"
    THEN LET c1 == writeMessage(c, 226, "Closing transfer connection")
         IN [c1 EXCEPT !.out = Append(@, Call("Close")), !.transfer = "nil"]
    ELSE c

\* end(): closes a channel still held; the field keeps pointing at it
end(c) ==
    IF c.transfer # "nil"
    THEN [c EXCEPT !.out = Append(@, Call("Close")), !.transfer = "closed"]
    ELSE c

(***************************************************************************)
(* The registry.                                                           *)
(***************************************************************************)
EmptyRegistry == [k \in {} |-> 1]

\* server.connectionsById[c.Id] = c
RegistryPut(reg, id, s) ==
    [k \in DOMAIN reg \cup {id} |-> IF k = id THEN s ELSE reg[k]]

\* Mutant of RegistryDelete: the entry stays.
RegistryDelete_Nothing(reg, id) == reg

\* delete(server.connectionsById, c.Id)
RegistryDelete(reg, id) == [k \in DOMAIN reg \ {id} |-> reg[k]]

\* len(server.connectionsById)
RegistryLen(reg) == Cardinality(DOMAIN reg)

\* Mutant of TooManyClients: the limit itself is already too many.
TooManyClients_AtLimit(nb, max) == nb >= max

\* clientArrival: whether it returns an error, given nb = len(connectionsById)
TooManyClients(nb, max) == nb > max

\* loadSettings: the default for MaxConnections
DefaultMaxConnections == 10000

loadSettings(maxConnections) ==
    IF maxConnections = 0 THEN DefaultMaxConnections ELSE maxConnections

\* The MaxConnections values a driver's GetSettings supplies in the model:
\* a negative limit, the zero value that selects the default, a limit of one.
DriverMaxConnections == {-1, 0, 1}

(***************************************************************************)
(* Initial states.                                                         *)
(***************************************************************************)
StopIdle == [pc |-> "idle", todo |-> {}, allClosed |-> TRUE]

\* NewFtpServer: the server right after construction.
InitNew ==
    /\ sess = [s \in Slots |-> NoSession]
    /\ connectionsById = EmptyRegistry
    /\ connectionsMutex = "unlocked"
    /\ clientCounter = U32Zero
    /\ Listener = "nil"
    /\ MaxConnections = 0
    /\ accept = "init"
    /\ stop = StopIdle

\* A session that was admitted and welcomed and now waits for its first line.
WaitingSession(id) ==
    [NewHandler(id) EXCEPT !.pc = "loop",
                           !.out = <<Call("WelcomeUser"), Send(220, "welcome")>>,
                           !.debug = "Client connected"]

\* A server that has been listening for a long time: clientCounter has gone
\* round once and stands at its largest value again, and the connection that
\* was given id 0 when the counter wrapped is still open, waiting for a line.
InitLongRunning ==
    /\ sess = [s \in Slots |-> IF s = 1 THEN WaitingSession(U32Zero) ELSE NoSession]
    /\ connectionsById = RegistryPut(EmptyRegistry, U32Zero, 1)
    /\ connectionsMutex = "unlocked"
    /\ clientCounter = U32Max
    /\ Listener = "open"
    /\ MaxConnections \in {loadSettings(m) : m \in DriverMaxConnections}
    /\ ~TooManyClients(RegistryLen(connectionsById), MaxConnections)
    /\ accept = "accept"
    /\ stop = StopIdle

Init == InitNew \/ InitLongRunning

(***************************************************************************)
(* The accept loop: ListenAndServe.                                        *)
(***************************************************************************)
\* loadSettings and net.Listen; bound says whether the listener could be bound.
ListenAndServe_Listen ==
    /\ accept = "init"
    /\ \E m \in DriverMaxConnections, bound \in BOOLEAN :
          /\ MaxConnections' = loadSettings(m)
          /\ Listener' = IF bound THEN "open" ELSE "nil"
          /\ accept' = IF bound THEN "accept" ELSE "returned"
    /\ UNCHANGED <<sess, connectionsById, connectionsMutex, clientCounter, stop>>

\* Listener.Accept() returns a connection; a run holds at most limit of them.
ListenAndServe_Accept(limit) ==
    /\ accept = "accept"
    /\ Listener = "open"
    /\ \E s \in 1..limit : sess[s].pc = "none"
    /\ accept' = "accepted"
    /\ UNCHANGED <<sess, connectionsById, connectionsMutex, clientCounter,
                   Listener, MaxConnections, stop>>

\* Listener.Accept() fails and ListenAndServe returns the error; failing
\* holds the states of the listener in which Accept fails.
ListenAndServe_AcceptError(failing) ==
    /\ accept = "accept"
    /\ Listener \in failing
    /\ accept' = "returned"
    /\ UNCHANGED <<sess, connectionsById, connectionsMutex, clientCounter,
                   Listener, MaxConnections, stop>>

\* c := server.NewClientHandler(connection); go c.HandleCommands()
ListenAndServe_Spawn ==
    /\ accept = "accepted"
    /\ LET s == CHOOSE x \in Slots :
                   sess[x].pc = "none" /\ \A y \in Slots : sess[y].pc = "none" => x <= y
       IN /\ clientCounter' = NewClientCounter(clientCounter)
          /\ sess' = [sess EXCEPT ![s] = NewHandler(clientCounter')]
    /\ accept' = "accept"
    /\ UNCHANGED <<connectionsById, connectionsMutex, Listener, MaxConnections, stop>>

(***************************************************************************)
(* HandleCommands: arrival, welcome, the command loop, the deferred calls. *)
(***************************************************************************)
\* clientArrival up to its return statement, holding connectionsMutex: the
\* insertion, len(), and the Fprintf to debugStream.
clientArrival_Lock(s) ==
    /\ sess[s].pc = "start"
    /\ connectionsMutex = "unlocked"
    /\ connectionsMutex' = "locked"
    /\ connectionsById' = RegistryPut(connectionsById, sess[s].Id, s)
    /\ sess' = [sess EXCEPT ![s].pc = "arrival",
                            ![s].debug = "Client connected",
                            ![s].arrivalErr =
                                TooManyClients(RegistryLen(connectionsById'), MaxConnections)]
    /\ UNCHANGED <<clientCounter, Listener, MaxConnections, accept, stop>>

\* clientArrival returns: the deferred Unlock runs.
clientArrival_Unlock(s) ==
    /\ sess[s].pc = "arrival"
    /\ connectionsMutex' = "unlocked"
    /\ sess' = [sess EXCEPT ![s].pc = IF sess[s].arrivalErr THEN "rejected" ELSE "welcome"]
    /\ UNCHANGED <<connectionsById, clientCounter, Listener, MaxConnections, accept, stop>>

\* clientArrival returned an error: the 500 response, then return.
HandleCommands_Rejected(s) ==
    /\ sess[s].pc = "rejected"
    /\ sess' = [sess EXCEPT ![s] =
                  [writeMessage(sess[s], 500, "Can't accept you - Too many clients")
                     EXCEPT !.pc = "end"]]
    /\ UNCHANGED <<connectionsById, connectionsMutex, clientCounter, Listener,
                   MaxConnections, accept, stop>>

\* Mutant of HandleCommands_Welcome: UserLeft is deferred only once
\* WelcomeUser has accepted the connection.
HandleCommands_Welcome_DefersLate(s) ==
    /\ sess[s].pc = "welcome"
    /\ \E ok \in BOOLEAN :
          LET c1 == writeLine(sess[s], Call("WelcomeUser"))
          IN sess' = [sess EXCEPT ![s] =
                        IF ok
                        THEN [writeMessage(c1, 220, "welcome") EXCEPT !.pc = "loop"]
                        ELSE [writeMessage(c1, 500, "welcome") EXCEPT !.pc = "end"]]
    /\ UNCHANGED <<connectionsById, connectionsMutex, clientCounter, Listener,
                   MaxConnections, accept, stop>>

\* defer UserLeft; driver.WelcomeUser: 220 and on to the loop, or 500 and return.
HandleCommands_Welcome(s) ==
    /\ sess[s].pc = "welcome"
    /\ \E ok \in BOOLEAN :
          LET c1 == writeLine(sess[s], Call("WelcomeUser"))
          IN sess' = [sess EXCEPT ![s] =
                        IF ok
                        THEN [writeMessage(c1, 220, "welcome") EXCEPT !.pc = "loop"]
                        ELSE [writeMessage(c1, 500, "welcome") EXCEPT !.pc = "userleft"]]
    /\ UNCHANGED <<connectionsById, connectionsMutex, clientCounter, Listener,
                   MaxConnections, accept, stop>>

\* top of the loop with c.reader == nil: "Clean disconnect", return.
HandleCommands_CleanDisconnect(s) ==
    /\ sess[s].pc = "loop"
    /\ sess[s].reader = "nil"
    /\ sess' = [sess EXCEPT ![s].pc = "userleft"]
    /\ UNCHANGED <<connectionsById, connectionsMutex, clientCounter, Listener,
                   MaxConnections, accept, stop>>

\* ReadString fails (io.EOF or another error): return.
HandleCommands_ReadError(s) ==
    /\ sess[s].pc = "loop"
    /\ sess[s].reader = "set"
    /\ sess' = [sess EXCEPT ![s].pc = "userleft"]
    /\ UNCHANGED <<connectionsById, connectionsMutex, clientCounter, Listener,
                   MaxConnections, accept, stop>>

\* Mutant of NeedsLogin: the test of isAuthed has lost its negation.
NeedsLogin_Negated(c) == c.command # USER /\ c.command # PASS /\ c.isAuthed

\* Whether the loop answers 530 instead of looking the command up.
NeedsLogin(c) == c.command # USER /\ c.command # PASS /\ ~c.isAuthed

\* Mutant of ReadLineResult: the handler is called without the lookup of the
\* command in commandsMap.
ReadLineResult_NoLookup(c, line) ==
    LET p == parseLine(line)
        c1 == [c EXCEPT !.command = ToUpper(p[1]), !.param = p[2],
                        !.out = <<>>, !.ret = "none"]
    IN IF NeedsLogin(c1)
       THEN writeMessage(c1, 530, "Please login with USER and PASS")
       ELSE [c1 EXCEPT !.pc = "handler"]

\* One line read: parse, record command and param, then the 530 gate, the
\* lookup in commandsMap with its 550, or the call of the handler.
ReadLineResult(c, line) ==
    LET p == parseLine(line)
        c1 == [c EXCEPT !.command = ToUpper(p[1]), !.param = p[2],
                        !.out = <<>>, !.ret = "none"]
    IN IF NeedsLogin(c1)
       THEN writeMessage(c1, 530, "Please login with USER and PASS")
       ELSE IF c1.command \notin commandsMap
            THEN writeMessage(c1, 550, "Not handled")
            ELSE [c1 EXCEPT !.pc = "handler"]

\* Mutant of HandleCommands_ReadLine: the next line is read while the data
\* phase of the previous command is still going on (pipelining).
HandleCommands_ReadLine_Pipelined(s, lines) ==
    /\ sess[s].pc \in {"loop", "data"}
    /\ sess[s].reader = "set"
    /\ \E line \in lines : sess' = [sess EXCEPT ![s] = ReadLineResult(sess[s], line)]
    /\ UNCHANGED <<connectionsById, connectionsMutex, clientCounter, Listener,
                   MaxConnections, accept, stop>>

\* c.reader.ReadString: one line arrives and is dispatched.
HandleCommands_ReadLine(s, lines) ==
    /\ sess[s].pc = "loop"
    /\ sess[s].reader = "set"
    /\ \E line \in lines : sess' = [sess EXCEPT ![s] = ReadLineResult(sess[s], line)]
    /\ UNCHANGED <<connectionsById, connectionsMutex, clientCounter, Listener,
                   MaxConnections, accept, stop>>

\* deferred: c.daddy.driver.UserLeft(c)
HandleCommands_UserLeft(s) ==
    /\ sess[s].pc = "userleft"
    /\ sess' = [sess EXCEPT ![s] = [writeLine(sess[s], Call("UserLeft")) EXCEPT !.pc = "end"]]
    /\ UNCHANGED <<connectionsById, connectionsMutex, clientCounter, Listener,
                   MaxConnections, accept, stop>>

\* deferred: c.end()
HandleCommands_End(s) ==
    /\ sess[s].pc = "end"
    /\ sess' = [sess EXCEPT ![s] = [end(sess[s]) EXCEPT !.pc = "departure"]]
    /\ UNCHANGED <<connectionsById, connectionsMutex, clientCounter, Listener,
                   MaxConnections, accept, stop>>

\* deferred: clientDeparture, up to its return, holding connectionsMutex:
\* the delete and the Fprintf to debugStream.
clientDeparture_Lock(s) ==
    /\ sess[s].pc = "departure"
    /\ connectionsMutex = "unlocked"
    /\ connectionsMutex' = "locked"
    /\ connectionsById' = RegistryDelete(connectionsById, sess[s].Id)
    /\ sess' = [sess EXCEPT ![s].pc = "departing",
                            ![s].debug = "Client disconnected"]
    /\ UNCHANGED <<clientCounter, Listener, MaxConnections, accept, stop>>

\* clientDeparture returns and, with it, HandleCommands.
clientDeparture_Unlock(s) ==
    /\ sess[s].pc = "departing"
    /\ connectionsMutex' = "unlocked"
    /\ sess' = [sess EXCEPT ![s].pc = "done"]
    /\ UNCHANGED <<connectionsById, clientCounter, Listener, MaxConnections, accept, stop>>

(***************************************************************************)
(* Command handlers.  Their bodies are not part of the sources modelled    *)
(* here; they follow the stateful command semantics of the specification   *)
(* and call TransferOpen, TransferClose and disconnect of clientHandler.   *)
(***************************************************************************)
Handling(s, verbs) == sess[s].pc = "handler" /\ sess[s].command \in verbs

\* USER: records the candidate user name, acknowledged provisionally.
handleUSER(s) ==
    /\ Handling(s, {USER})
    /\ sess' = [sess EXCEPT ![s] =
                  [writeMessage(sess[s], 331, "OK") EXCEPT !.user = sess[s].param,
                                                            !.pc = "loop"]]
    /\ UNCHANGED <<connectionsById, connectionsMutex, clientCounter, Listener,
                   MaxConnections, accept, stop>>

\* PASS: driver.AuthUser accepts (the session is authenticated) or refuses.
handlePASS(s) ==
    /\ Handling(s, {PASS})
    /\ \E ok \in BOOLEAN :
          LET c1 == writeLine(sess[s], Call("AuthUser"))
          IN sess' = [sess EXCEPT ![s] =
                        IF ok
                        THEN [writeMessage(c1, 230, "Password ok, continue")
                                EXCEPT !.isAuthed = TRUE, !.pc = "loop"]
                        ELSE [writeMessage(c1, 530, "Authentication problem")
                                EXCEPT !.pc = "loop"]]
    /\ UNCHANGED <<connectionsById, connectionsMutex, clientCounter, Listener,
                   MaxConnections, accept, stop>>

\* PASV, EPSV: a new transfer channel replaces the one held, if any.
handlePASV(s) ==
    /\ Handling(s, {PASV, EPSV})
    /\ sess' = [sess EXCEPT ![s] =
                  [writeMessage(sess[s], 227, "Entering Passive Mode")
                     EXCEPT !.transfer = "declared", !.pc = "loop"]]
    /\ UNCHANGED <<connectionsById, connectionsMutex, clientCounter, Listener,
                   MaxConnections, accept, stop>>

\* RETR, STOR, APPE: TransferOpen; without a stream the handler returns.
handleTransfer_Open(s) ==
    /\ Handling(s, {RETR, STOR, APPE})
    /\ \E opened \in BOOLEAN :
          LET c1 == TransferOpen(sess[s], opened)
          IN sess' = [sess EXCEPT ![s] =
                        [c1 EXCEPT !.pc = IF c1.ret = "conn" THEN "data" ELSE "loop"]]
    /\ UNCHANGED <<connectionsById, connectionsMutex, clientCounter, Listener,
                   MaxConnections, accept, stop>>

\* RETR, STOR, APPE: the data phase succeeds or fails, then TransferClose.
handleTransfer_Close(s) ==
    /\ sess[s].pc = "data"
    /\ \E copied \in {"copied", "failed"} :
          LET c1 == writeLine(sess[s], [ev |-> "io.Copy", code |-> 0, msg |-> copied])
          IN sess' = [sess EXCEPT ![s] = [TransferClose(c1) EXCEPT !.pc = "loop"]]
    /\ UNCHANGED <<connectionsById, connectionsMutex, clientCounter, Listener,
                   MaxConnections, accept, stop>>

\* QUIT: the closing response; the connection is closed and the loop ends.
handleQUIT(s) ==
    /\ Handling(s, {QUIT})
    /\ sess' = [sess EXCEPT ![s] =
                  [disconnect(writeMessage(sess[s], 221, "Goodbye"))
                     EXCEPT !.reader = "nil", !.pc = "loop"]]
    /\ UNCHANGED <<connectionsById, connectionsMutex, clientCounter, Listener,
                   MaxConnections, accept, stop>>

\* RNFR: the source is recorded when the driver can access it (350), and a
\* 550 is written when it cannot.
handleRNFR(s) ==
    /\ Handling(s, {RNFR})
    /\ \E ok \in BOOLEAN :
          LET c1 == writeLine(sess[s], Call("GetFileInfo"))
          IN sess' = [sess EXCEPT ![s] =
                        IF ok
                        THEN [writeMessage(c1, 350, "Sure, give me a target")
                                EXCEPT !.ctx_rnfr = sess[s].param, !.pc = "loop"]
                        ELSE [writeMessage(c1, 550, "Couldn't access")
                                EXCEPT !.pc = "loop"]]
    /\ UNCHANGED <<connectionsById, connectionsMutex, clientCounter, Listener,
                   MaxConnections, accept, stop>>

\* RNTO: without a recorded source a 550 and nothing else; with one,
\* driver.RenameFile(source, target): accepted, 250 and the source is
\* cleared; refused, 550 and the source is cleared or kept (the
\* specification says both).
handleRNTO(s) ==
    /\ Handling(s, {RNTO})
    /\ IF sess[s].ctx_rnfr = <<>>
       THEN sess' = [sess EXCEPT ![s] =
                       [writeMessage(sess[s], 550, "RNFR is expected before RNTO")
                          EXCEPT !.pc = "loop"]]
       ELSE \E ok, cleared \in BOOLEAN :
               LET c1 == [writeLine(sess[s], Call("RenameFile"))
                            EXCEPT !.renamed = <<sess[s].ctx_rnfr, sess[s].param>>]
               IN sess' = [sess EXCEPT ![s] =
                             IF ok
                             THEN [writeMessage(c1, 250, "Done")
                                     EXCEPT !.ctx_rnfr = <<>>, !.pc = "loop"]
                             ELSE [writeMessage(c1, 550, "Couldn't rename")
                                     EXCEPT !.ctx_rnfr = IF cleared THEN <<>> ELSE @,
                                            !.pc = "loop"]]
    /\ UNCHANGED <<connectionsById, connectionsMutex, clientCounter, Listener,
                   MaxConnections, accept, stop>>

\* NOOP
handleNOOP(s) ==
    /\ Handling(s, {NOOP})
    /\ sess' = [sess EXCEPT ![s] = [writeMessage(sess[s], 200, "OK") EXCEPT !.pc = "loop"]]
    /\ UNCHANGED <<connectionsById, connectionsMutex, clientCounter, Listener,
                   MaxConnections, accept, stop>>

(***************************************************************************)
(* Stop().                                                                 *)
(***************************************************************************)
\* Mutant of Stop_Call: Stop() closes the listener before it drains.
Stop_Call_ClosesFirst ==
    /\ stop.pc = "idle"
    /\ Listener # "nil"
    /\ Listener' = "closed"
    /\ stop' = [stop EXCEPT !.pc = "loop"]
    /\ UNCHANGED <<sess, connectionsById, connectionsMutex, clientCounter,
                   MaxConnections, accept>>

\* Stop() is called (once) on a server whose Listener has been set: on a nil
\* Listener its last statement would panic.
Stop_Call ==
    /\ stop.pc = "idle"
    /\ Listener # "nil"
    /\ stop' = [stop EXCEPT !.pc = "loop"]
    /\ UNCHANGED <<sess, connectionsById, connectionsMutex, clientCounter,
                   Listener, MaxConnections, accept>>

\* connectionsMutex.Lock(); allClosed := true; the range starts.
Stop_Lock ==
    /\ stop.pc = "loop"
    /\ connectionsMutex = "unlocked"
    /\ connectionsMutex' = "locked"
    /\ stop' = [pc |-> IF DOMAIN connectionsById = {} THEN "ranged" ELSE "range",
                todo |-> DOMAIN connectionsById,
                allClosed |-> TRUE]
    /\ UNCHANGED <<sess, connectionsById, clientCounter, Listener, MaxConnections, accept>>

\* One iteration of the range over connectionsById (in any order): the
\* session's IsTransferClosed(), and break when it is false.
Stop_Range ==
    /\ stop.pc = "range"
    /\ \E k \in stop.todo :
          IF IsTransferClosed(sess[connectionsById[k]])
          THEN stop' = [stop EXCEPT !.todo = @ \ {k},
                                    !.pc = IF stop.todo = {k} THEN "ranged" ELSE "range"]
          ELSE stop' = [stop EXCEPT !.todo = {}, !.allClosed = FALSE, !.pc = "ranged"]
    /\ UNCHANGED <<sess, connectionsById, connectionsMutex, clientCounter,
                   Listener, MaxConnections, accept>>

\* connectionsMutex.Unlock(); then break out of the loop or sleep.
Stop_Unlock ==
    /\ stop.pc = "ranged"
    /\ connectionsMutex' = "unlocked"
    /\ stop' = [stop EXCEPT !.pc = IF stop.allClosed THEN "close" ELSE "sleep"]
    /\ UNCHANGED <<sess, connectionsById, clientCounter, Listener, MaxConnections, accept>>

\* time.Sleep(1 * time.Second) returns.
Stop_Sleep ==
    /\ stop.pc = "sleep"
    /\ stop' = [stop EXCEPT !.pc = "loop"]
    /\ UNCHANGED <<sess, connectionsById, connectionsMutex, clientCounter,
                   Listener, MaxConnections, accept>>

\* Mutant of Stop_Close: Stop() also closes the control connection of every
\* session and drops the transfer channels they hold.
Stop_Close_Kills ==
    /\ stop.pc = "close"
    /\ Listener' = "closed"
    /\ stop' = [stop EXCEPT !.pc = "returned"]
    /\ sess' = [s \in Slots |-> [disconnect(sess[s]) EXCEPT !.transfer = "nil"]]
    /\ UNCHANGED <<connectionsById, connectionsMutex, clientCounter,
                   MaxConnections, accept>>

\* server.Listener.Close(); Stop returns.
Stop_Close ==
    /\ stop.pc = "close"
    /\ Listener' = "closed"
    /\ stop' = [stop EXCEPT !.pc = "returned"]
    /\ UNCHANGED <<sess, connectionsById, connectionsMutex, clientCounter,
                   MaxConnections, accept>>

(***************************************************************************)
(* The specification.                                                      *)
(***************************************************************************)
ServerStep(limit, failing) ==
    \/ ListenAndServe_Listen
    \/ ListenAndServe_Accept(limit)
    \/ ListenAndServe_AcceptError(failing)
    \/ ListenAndServe_Spawn
    \/ Stop_Call
    \/ Stop_Lock
    \/ Stop_Range
    \/ Stop_Unlock
    \/ Stop_Sleep
    \/ Stop_Close

SessionStep(s, lines) ==
    \/ clientArrival_Lock(s)
    \/ clientArrival_Unlock(s)
    \/ HandleCommands_Rejected(s)
    \/ HandleCommands_Welcome(s)
    \/ HandleCommands_CleanDisconnect(s)
    \/ HandleCommands_ReadError(s)
    \/ HandleCommands_ReadLine(s, lines)
    \/ HandleCommands_UserLeft(s)
    \/ HandleCommands_End(s)
    \/ clientDeparture_Lock(s)
    \/ clientDeparture_Unlock(s)
    \/ handlePASS(s)
    \/ handlePASV(s)
    \/ handleTransfer_Open(s)
    \/ handleTransfer_Close(s)
    \/ handleQUIT(s)
    \/ handleNOOP(s)

\* The server with MaxSessions connections whose clients send ServerLines;
\* Accept fails on the closed listener and may fail on the open one.
Next ==
    \/ ServerStep(MaxSessions, {"open", "closed"})
    \/ \E s \in Slots : SessionStep(s, ServerLines)

Spec == Init /\ [][Next]_vars

\* The server with MaxSoloSessions connections whose clients send
\* SessionLines; Accept fails on the closed listener only.
NextSession ==
    \/ ServerStep(MaxSoloSessions, {"closed"})
    \/ \E s \in Slots : SessionStep(s, SessionLines)
    \/ \E s \in Slots : handleUSER(s)

SpecSession == Init /\ [][NextSession]_vars

\* Fair scheduling of the goroutines: a goroutine that can run does run, and
\* one that waits in connectionsMutex.Lock() gets the mutex when it is
\* released again and again.  Nothing makes a client send a line or a
\* connection fail, and nothing makes Stop() be called.
FairScheduling ==
    /\ SF_vars(Stop_Lock)
    /\ WF_vars(Stop_Range)
    /\ WF_vars(Stop_Unlock)
    /\ WF_vars(Stop_Sleep)
    /\ WF_vars(Stop_Close)
    /\ \A s \in Slots :
          /\ WF_vars(clientArrival_Unlock(s))
          /\ WF_vars(HandleCommands_UserLeft(s))
          /\ WF_vars(HandleCommands_End(s))
          /\ SF_vars(clientDeparture_Lock(s))
          /\ WF_vars(clientDeparture_Unlock(s))

\* SpecSession under fair scheduling.
SpecStopFair == Init /\ [][NextSession]_vars /\ FairScheduling

\* The steps of a session whose client sends RenameLines: it never quits and
\* asks for no transfer.
RenameStep(s) ==
    \/ clientArrival_Lock(s)
    \/ clientArrival_Unlock(s)
    \/ HandleCommands_Rejected(s)
    \/ HandleCommands_Welcome(s)
    \/ HandleCommands_ReadError(s)
    \/ HandleCommands_ReadLine(s, RenameLines)
    \/ HandleCommands_UserLeft(s)
    \/ HandleCommands_End(s)
    \/ clientDeparture_Lock(s)
    \/ clientDeparture_Unlock(s)
    \/ handlePASS(s)
    \/ handleRNFR(s)
    \/ handleRNTO(s)

\* The server with MaxSoloSessions connections whose clients send
\* RenameLines; Stop() is not called and Accept does not fail.
NextRename ==
    \/ ListenAndServe_Listen
    \/ ListenAndServe_Accept(MaxSoloSessions)
    \/ ListenAndServe_Spawn
    \/ \E s \in Slots : RenameStep(s)

SpecRename == Init /\ [][NextRename]_vars

(***************************************************************************)
(* Properties.                                                             *)
(***************************************************************************)
\* How often a session's record of writes and calls holds event ev.
Count(out, ev) == Cardinality({i \in DOMAIN out : out[i].ev = ev})

\* The sessions that exist: a connection was accepted for their slot.
Created == {s \in Slots : sess[s].pc # "none"}

\* C1: a session that has not authenticated answers every line whose
\* upper-cased verb is neither USER nor PASS with "530 Please login with USER
\* and PASS": the step that reads the line calls no handler and no driver (the
\* 530 is all it writes), changes nothing of the session but the recorded
\* command and param, and leaves the session at the top of its loop, reading.
C1_LoginGate ==
    [][\A s \in Slots :
          LET c == sess[s]
              d == sess'[s]
          IN (/\ c.pc = "loop" /\ c.reader = "set" /\ ~c.isAuthed
              /\ d # c /\ d.pc # "userleft"
              /\ d.command \notin {USER, PASS})
             => d = [c EXCEPT !.command = d.command, !.param = d.param,
                              !.out = <<Send(530, "Please login with USER and PASS")>>]
      ]_vars

\* C1 witness: an unauthenticated session sent "noop" and got the 530.
C1_Witness ==
    \E s \in Slots :
        /\ sess[s].pc = "loop" /\ ~sess[s].isAuthed /\ sess[s].reader = "set"
        /\ sess[s].command = NOOP
        /\ sess[s].out = <<Send(530, "Please login with USER and PASS")>>

\* C2: clientArrival puts the session into the registry under its id and
\* returns an error exactly when the registry, right after that insertion,
\* holds more than MaxConnections entries; it returns without taking the
\* session out again; and the registry never grows beyond MaxConnections
\* entries except by an arrival that is rejected.
C2_ArrivalAdmission ==
    [][/\ \A s \in Slots :
             (sess[s].pc = "start" /\ sess'[s].pc = "arrival")
             => /\ sess[s].Id \in DOMAIN connectionsById'
                /\ connectionsById'[sess[s].Id] = s
                /\ sess'[s].arrivalErr = (RegistryLen(connectionsById') > MaxConnections)
       /\ \A s \in Slots :
             (sess[s].pc = "arrival" /\ sess'[s].pc # "arrival")
             => /\ connectionsById' = connectionsById
                /\ sess[s].Id \in DOMAIN connectionsById
                /\ connectionsById[sess[s].Id] = s
                /\ (sess'[s].pc = "rejected") = (RegistryLen(connectionsById) > MaxConnections)
                /\ sess'[s].pc \in {"rejected", "welcome"}
       /\ (/\ RegistryLen(connectionsById') > MaxConnections
           /\ RegistryLen(connectionsById') > RegistryLen(connectionsById))
          => \E s \in Slots : /\ sess[s].pc = "start" /\ sess'[s].pc = "arrival"
                              /\ sess'[s].arrivalErr
      ]_vars

\* C2 witness: with a limit of one, a second session has been rejected and
\* is still in the registry beside the first.
C2_Witness ==
    \E s \in Slots :
        /\ MaxConnections = 1
        /\ sess[s].pc = "rejected"
        /\ sess[s].Id \in DOMAIN connectionsById
        /\ connectionsById[sess[s].Id] = s
        /\ RegistryLen(connectionsById) = 2

\* C3: a session rejected at admission has, when HandleCommands is over,
\* been sent the explanatory 500 response and had its control connection
\* closed.
C3_RejectedIsClosed ==
    \A s \in Slots :
        (MaxConnections > 0 /\ sess[s].pc = "done" /\ sess[s].arrivalErr)
        => /\ Count(sess[s].out, "send") = 1
           /\ sess[s].conn = "closed"

\* C4: at the step in which Stop() closes the listener and returns, every
\* session in the registry has IsTransferClosed() true.
C4_StopReturnsDrained ==
    [][(stop.pc = "close" /\ stop'.pc = "returned")
       => \A k \in DOMAIN connectionsById' :
              IsTransferClosed(sess'[connectionsById'[k]])
      ]_vars

\* C5 as claimed: once Stop() has been called, Accept returns no connection,
\* no session is created and none is registered.
C5_NoSessionOnceStopCalled ==
    [][stop.pc # "idle"
       => /\ (accept' = "accepted" => accept = "accepted")
          /\ \A s \in Slots : sess[s].pc = "none" => sess'[s].pc = "none"
          /\ \A s \in Slots : ~(sess[s].pc = "start" /\ sess'[s].pc = "arrival")
      ]_vars

\* C5 as amended: once Stop() has closed the listener, Accept returns no
\* connection, and a session is only still created for a connection that
\* Accept had returned before; until then the accept loop goes on.
C5_NoAcceptOnceListenerClosed ==
    [][Listener = "closed"
       => /\ Listener' = "closed"
          /\ stop.pc = "returned"
          /\ (accept' = "accepted" => accept = "accepted")
          /\ \A s \in Slots : (sess[s].pc = "none" /\ sess'[s].pc # "none")
                              => (accept = "accepted" /\ accept' = "accept")
          /\ accept \in {"accept", "returned"}
             => \A s \in Slots : sess[s].pc = "none" => sess'[s].pc = "none"
      ]_vars

\* C5 witness: Stop() has closed the listener and returned, and
\* ListenAndServe has returned the error of its Accept.
C5_Witness ==
    /\ Listener = "closed"
    /\ stop.pc = "returned"
    /\ accept = "returned"

\* The slots the registry points at.
Registered == {connectionsById[k] : k \in DOMAIN connectionsById}

\* C6: a session whose HandleCommands has returned has no entry in the
\* registry, and every entry of the registry is a session whose
\* HandleCommands is running.
C6_DepartedNotRegistered ==
    /\ \A s \in Slots : sess[s].pc = "done" => s \notin Registered
    /\ \A s \in Registered : sess[s].pc \notin {"none", "start", "done"}

\* C6 witness: with a limit of one, one session has ended after QUIT and
\* another after being rejected at admission.
C6_Witness ==
    \E s, t \in Slots :
        /\ sess[s].pc = "done" /\ ~sess[s].arrivalErr /\ sess[s].command = QUIT
        /\ sess[t].pc = "done" /\ sess[t].arrivalErr
        /\ MaxConnections = 1

\* The calls of driver.UserLeft a session has made.
UserLeftCalls(s) == Count(sess[s].out, "UserLeft")

InTransferHandler(c) == c.pc = "handler" /\ c.command \in {RETR, STOR, APPE}

\* C8: TransferOpen on a session that holds no transfer channel writes "550
\* No passive connection declared", returns an error, calls no Open and
\* changes nothing else of the session; on a session that holds one it
\* writes "150 Using transfer connection", then calls the channel's Open, and
\* returns the stream or the error of Open, changing nothing else.
C8_TransferOpen ==
    [][\A s \in Slots :
          LET c == sess[s]
              d == sess'[s]
          IN (InTransferHandler(c) /\ d # c)
             => IF c.transfer = "nil"
                THEN [d EXCEPT !.pc = c.pc] =
                       [c EXCEPT !.out = c.out \o <<Send(550, "No passive connection declared")>>,
                                 !.ret = "err"]
                ELSE \/ [d EXCEPT !.pc = c.pc] =
                          [c EXCEPT !.out = c.out \o <<Send(150, "Using transfer connection"),
                                                       Call("Open")>>,
                                    !.transfer = "open",
                                    !.ret = "conn"]
                     \/ [d EXCEPT !.pc = c.pc] =
                          [c EXCEPT !.out = c.out \o <<Send(150, "Using transfer connection"),
                                                       Call("Open")>>,
                                    !.ret = "err"]
      ]_vars

\* C8 witness: the RETR of an authenticated session found no channel
\* declared and TransferOpen answered 550.
C8_Witness ==
    \E s \in Slots :
        /\ sess[s].isAuthed /\ sess[s].command = RETR /\ sess[s].pc = "loop"
        /\ sess[s].transfer = "nil" /\ sess[s].ret = "err"
        /\ sess[s].out = <<Send(550, "No passive connection declared")>>

\* The sessions in their command loop, where a handler may call TransferClose.
InCommandLoop(c) == c.pc \in {"loop", "handler", "data"}

\* C9: on a session that holds no transfer channel TransferClose changes
\* nothing and writes nothing; on a session that holds one it writes one "226
\* Closing transfer connection", closes the channel once and clears the
\* reference, changing nothing else, so that a second call right after it
\* changes nothing; and the TransferClose of a data handler does just that,
\* whether the data phase succeeded or failed.
C9_TransferCloseIdempotent ==
    \A s \in Slots :
        LET c == sess[s]
            d == TransferClose(c)
        IN InCommandLoop(c)
           => /\ c.transfer = "nil" => d = c
              /\ c.transfer # "nil"
                 => d = [c EXCEPT !.out = c.out \o <<Send(226, "Closing transfer connection"),
                                                     Call("Close")>>,
                                  !.transfer = "nil"]
              /\ TransferClose(d) = d
              /\ (c.pc = "loop" /\ Count(c.out, "io.Copy") = 1)
                 => /\ c.transfer = "nil"
                    /\ Count(c.out, "Close") = 1
                    /\ Len(c.out) = 5
                    /\ c.out[4] = Send(226, "Closing transfer connection")
                    /\ c.out[5] = Call("Close")

\* C9 witness: a data phase has failed and TransferClose has written the
\* 226, closed the channel and cleared the reference.
C9_Witness ==
    \E s \in Slots :
        /\ sess[s].pc = "loop" /\ sess[s].transfer = "nil"
        /\ Len(sess[s].out) = 5
        /\ sess[s].out[3] = [ev |-> "io.Copy", code |-> 0, msg |-> "failed"]
        /\ sess[s].out[4] = Send(226, "Closing transfer connection")
        /\ sess[s].out[5] = Call("Close")

\* C10: no two sessions of one server have the same id.
C10_IdsNeverReused ==
    \A s, t \in Created : s # t => sess[s].Id # sess[t].Id

\* Whether the writes and calls in out begin with those in pre, in order.
StartsWith(out, pre) ==
    Len(pre) <= Len(out) /\ SubSeq(out, 1, Len(pre)) = pre

\* C11: within one session commands run one at a time.  While the handler
\* of a command runs, every step of the session keeps the command and its
\* parameter and only adds to what the command has written, in order; a
\* step that takes up another line (the record of the command's writes
\* starts afresh) is taken only at the top of the loop, after the handler of
\* the previous command has returned, and at most one handler then starts.
C11_OneCommandAtATime ==
    [][\A s \in Slots :
          LET c == sess[s]
              d == sess'[s]
          IN /\ (c.pc \in {"handler", "data"} /\ d # c)
                => /\ d.command = c.command /\ d.param = c.param
                   /\ StartsWith(d.out, c.out) /\ Len(d.out) > Len(c.out)
                   /\ d.pc \in {"data", "loop"}
             /\ (c.pc # "none" /\ ~StartsWith(d.out, c.out))
                => /\ c.pc = "loop" /\ c.reader = "set"
                   /\ d.pc \in {"loop", "handler"}
                   /\ d.pc = "handler" <=> d.out = <<>>
      ]_vars

\* C11 witness: after the PASV handler returned (a channel is declared) the
\* session has read "retr" and its handler has not written anything yet.
C11_Witness ==
    \E s \in Slots :
        /\ sess[s].pc = "handler" /\ sess[s].command = RETR
        /\ sess[s].transfer = "declared" /\ sess[s].out = <<>>

\* The goroutines between a Lock and the Unlock of connectionsMutex.
InCriticalSection ==
    {<<"HandleCommands", s>> : s \in {x \in Slots : sess[x].pc \in {"arrival", "departing"}}}
    \cup (IF stop.pc \in {"range", "ranged"} THEN {<<"Stop", 0>>} ELSE {})

\* C12: the registry is read and changed only by the goroutine that holds
\* connectionsMutex, one at a time (clientArrival, clientDeparture, the scan
\* of Stop), and no goroutine writes to a stream or sleeps between its Lock
\* and its Unlock.
C12_MutexOnlyAroundRegistry ==
    [][/\ Cardinality(InCriticalSection) <= 1
       /\ (InCriticalSection # {}) <=> (connectionsMutex = "locked")
       /\ connectionsById' # connectionsById
          => connectionsMutex = "unlocked" /\ connectionsMutex' = "locked"
       /\ (stop.pc # "sleep" /\ stop'.pc = "sleep") => connectionsMutex' = "unlocked"
       /\ \A s \in Slots :
             (sess'[s].debug # sess[s].debug \/ sess'[s].out # sess[s].out)
             => <<"HandleCommands", s>> \notin InCriticalSection'
      ]_vars

\* A step of session s that reads a line whose upper-cased verb is no key of
\* commandsMap.
ReadsUnknownVerb(s) ==
    /\ sess[s].pc = "loop" /\ sess[s].reader = "set"
    /\ sess'[s] # sess[s] /\ sess'[s].pc # "userleft"
    /\ sess'[s].command \notin commandsMap

\* C13 as claimed: every line whose upper-cased verb is no key of
\* commandsMap is answered with "550 Not handled", no handler runs and the
\* session is at the top of its loop again.
C13_UnknownVerbIs550 ==
    [][\A s \in Slots :
          ReadsUnknownVerb(s)
          => /\ sess'[s].out = <<Send(550, "Not handled")>>
             /\ sess'[s].pc = "loop"
      ]_vars

\* C13 as amended: a line whose upper-cased verb is no key of commandsMap is
\* answered with "550 Not handled" on an authenticated session and with "530
\* Please login with USER and PASS" on a session that has not authenticated;
\* either way that response is all the step writes, no handler and no driver
\* is called, nothing of the session changes but the recorded command and
\* param, and the session is at the top of its loop again, reading.
C13_UnknownVerbAuthed550 ==
    [][\A s \in Slots :
          ReadsUnknownVerb(s)
          => sess'[s] =
               [sess[s] EXCEPT
                  !.command = sess'[s].command,
                  !.param = sess'[s].param,
                  !.ret = "none",
                  !.out = IF sess[s].isAuthed
                          THEN <<Send(550, "Not handled")>>
                          ELSE <<Send(530, "Please login with USER and PASS")>>]
      ]_vars

\* C13 witness: an authenticated session sent "xyz f" and got the 550.
C13_Witness ==
    \E s \in Slots :
        /\ sess[s].pc = "loop" /\ sess[s].isAuthed /\ sess[s].reader = "set"
        /\ sess[s].command = <<"X","Y","Z">> /\ sess[s].param = <<"f">>
        /\ sess[s].out = <<Send(550, "Not handled")>>

\* C14: Stop() drains and does not kill.  No step of Stop() changes a
\* session (its control connection, the position of its handler, its
\* transfer channel) or the registry, the counter, the settings or the accept
\* loop; it takes connectionsMutex free and gives it back; and the one
\* change it makes is to close the listener, in its last step, after a scan
\* of the registry that found every transfer channel closed.
C14_StopIsADrain ==
    [][stop' # stop
       => /\ sess' = sess
          /\ connectionsById' = connectionsById
          /\ clientCounter' = clientCounter
          /\ MaxConnections' = MaxConnections
          /\ accept' = accept
          /\ connectionsMutex' # connectionsMutex
             => \/ stop.pc = "loop" /\ stop'.pc \in {"range", "ranged"}
                   /\ connectionsMutex = "unlocked"
                \/ stop.pc = "ranged" /\ stop'.pc \in {"close", "sleep"}
                   /\ connectionsMutex = "locked"
          /\ Listener' # Listener
             => /\ stop.pc = "close" /\ stop'.pc = "returned"
                /\ stop.allClosed
                /\ Listener = "open" /\ Listener' = "closed"
      ]_vars

\* C14 witness: Stop() has closed the listener and returned while a session
\* is still inside a command handler, its control connection open.
C14_Witness ==
    /\ stop.pc = "returned" /\ Listener = "closed"
    /\ \E s \in Slots :
          /\ sess[s].pc \in {"handler", "data"} /\ sess[s].conn = "open"
          /\ sess[s].Id \in DOMAIN connectionsById

\* The registry without the entries that point at session s.
WithoutSession(reg, s) == [k \in {x \in DOMAIN reg : reg[x] # s} |-> reg[k]]

\* C15: clientDeparture for a session removes exactly the entry of that
\* session and leaves every other entry as it was (so it changes nothing for
\* a session that has no entry), and a second call for the same session
\* right after it changes nothing.
C15_DepartureRemovesOwnEntry ==
    [][\A s \in Slots :
          (sess[s].pc = "departure" /\ sess'[s].pc = "departing")
          => /\ connectionsById' = WithoutSession(connectionsById, s)
             /\ RegistryDelete(connectionsById', sess[s].Id) = connectionsById'
      ]_vars

\* C16: on an authenticated session the handler of RNTO, when no rename
\* source is recorded, writes one 5xx response and nothing else, calls no
\* driver and leaves the session in its loop, reading; when a source is
\* recorded it calls driver.RenameFile once, with the source that the last
\* accepted RNFR recorded and the target of the RNTO, and an accepted rename
\* (250) leaves no source recorded.  A source is recorded by an accepted
\* RNFR (350) only, and an authenticated session hands RNFR and RNTO lines
\* to these handlers.
C16_RenameSequence ==
    [][\A s \in Slots :
          LET c == sess[s]
              d == sess'[s]
          IN /\ (c.pc = "handler" /\ c.command = RNTO /\ d # c /\ c.ctx_rnfr = <<>>)
                => /\ c.isAuthed
                   /\ d = [c EXCEPT !.out = <<Send(550, "RNFR is expected before RNTO")>>,
                                     !.pc = "loop"]
                   /\ d.reader = "set" /\ d.conn = "open"
             /\ (c.pc = "handler" /\ c.command = RNTO /\ d # c /\ c.ctx_rnfr # <<>>)
                => /\ c.isAuthed
                   /\ Len(d.out) = 2 /\ d.out[1] = Call("RenameFile")
                   /\ d.renamed = <<c.ctx_rnfr, c.param>>
                   /\ d.out[2].ev = "send" /\ d.out[2].code \in {250, 550}
                   /\ d.out[2].code = 250 => d.ctx_rnfr = <<>>
                   /\ d.pc = "loop"
             /\ (d.ctx_rnfr # c.ctx_rnfr /\ d.ctx_rnfr # <<>>)
                => /\ c.pc = "handler" /\ c.command = RNFR /\ c.isAuthed
                   /\ d.ctx_rnfr = c.param
                   /\ d.out[Len(d.out)] = Send(350, "Sure, give me a target")
             /\ d.renamed # c.renamed => (c.pc = "handler" /\ c.command = RNTO)
             /\ (c.pc = "loop" /\ c.isAuthed /\ d # c /\ d.command \in {RNFR, RNTO}
                 /\ d.pc # "userleft")
                => d.pc = "handler"
      ]_vars

\* C16 witness: "RNFR a" then "RNTO b" on an authenticated session, the
\* driver accepting: RenameFile was called with (a, b), 250 was written and
\* no source is recorded any more.
C16_Witness ==
    \E s \in Slots :
        /\ sess[s].pc = "loop" /\ sess[s].isAuthed /\ sess[s].command = RNTO
        /\ sess[s].renamed = << <<"a">>, <<"b">> >>
        /\ sess[s].out = <<Call("RenameFile"), Send(250, "Done")>>
        /\ sess[s].ctx_rnfr = <<>>

\* C17 as claimed: IsTransferClosed() is true exactly when the session holds
\* no open transfer channel; so it is true for a channel that was declared
\* and not opened, and after an Open that failed.
C17_ClosedIffNoOpenChannel ==
    \A s \in Created : IsTransferClosed(sess[s]) <=> sess[s].transfer # "open"

\* C17 as amended: IsTransferClosed() is true exactly when the session holds
\* no transfer channel at all.  It is true for a new session, after a
\* TransferOpen that found no channel declared and after TransferClose; it is
\* false once PASV or EPSV has declared a channel, whether or not Open was
\* called on it and whether Open succeeded or failed, and it stays false
\* after end() has closed a channel still held; no other step changes it.
C17_ClosedIffNoChannelHeld ==
    [][\A s \in Slots :
          LET c == sess[s]
              d == sess'[s]
          IN /\ IsTransferClosed(d) <=> d.transfer \notin {"declared", "open", "closed"}
             /\ (c.pc = "none" /\ d.pc # "none") => IsTransferClosed(d)
             /\ (c.pc = "handler" /\ c.command \in {PASV, EPSV} /\ d # c)
                => ~IsTransferClosed(d)
             /\ (InTransferHandler(c) /\ d # c)
                => /\ IsTransferClosed(d) <=> IsTransferClosed(c)
                   /\ IsTransferClosed(d) => d.ret = "err"
             /\ (c.pc = "data" /\ d # c) => IsTransferClosed(d)
             /\ (c.pc \notin {"none", "handler", "data"})
                => (IsTransferClosed(d) <=> IsTransferClosed(c))
      ]_vars

\* C17 witness: a channel was declared and its Open failed; the session
\* waits for the next line and IsTransferClosed() is false.
C17_Witness ==
    \E s \in Slots :
        /\ sess[s].pc = "loop" /\ sess[s].command = RETR /\ sess[s].ret = "err"
        /\ sess[s].out = <<Send(150, "Using transfer connection"), Call("Open")>>
        /\ sess[s].transfer = "declared"
        /\ ~IsTransferClosed(sess[s])

\* The sessions for which clientArrival has returned nil and clientDeparture
\* has not run yet.
Admitted ==
    {s \in Slots : /\ sess[s].pc \in {"welcome", "loop", "handler", "data",
                                      "userleft", "end", "departure"}
                   /\ ~sess[s].arrivalErr}

\* C18: on a server whose MaxConnections is positive there are never more
\* than MaxConnections admitted sessions.
C18_AdmittedWithinLimit ==
    MaxConnections > 0 => Cardinality(Admitted) <= MaxConnections

\* The order of the deferred calls in the steps of session s: UserLeft is
\* called only by a session that was admitted, end() comes after it (or right
\* after the 500 of a rejection), closes a channel still held, and
\* clientDeparture comes last.
TeardownInOrder(s) ==
    LET c == sess[s]
        d == sess'[s]
    IN /\ (d.pc = "userleft" /\ c.pc # "userleft")
          => c.pc \in {"welcome", "loop"} /\ ~c.arrivalErr
       /\ (c.pc = "userleft" /\ d # c)
          => d.pc = "end" /\ d.out = Append(c.out, Call("UserLeft"))
       /\ (d.pc = "end" /\ c.pc # "end")
          => \/ c.pc = "userleft"
             \/ c.pc = "rejected" /\ c.arrivalErr
       /\ (c.pc = "end" /\ d # c)
          => /\ d.pc = "departure"
             /\ c.transfer = "nil" => d.transfer = "nil" /\ d.out = c.out
             /\ c.transfer # "nil"
                => d.transfer = "closed" /\ d.out = Append(c.out, Call("Close"))
             /\ connectionsById' = connectionsById
       /\ (d.pc = "departure" /\ c.pc # "departure") => c.pc = "end"
       /\ (c.pc = "departure" /\ d # c)
          => d.pc = "departing" /\ sess[s].Id \notin DOMAIN connectionsById'
       /\ (c.pc = "departing" /\ d # c) => d.pc = "done"

\* C19: every exit of HandleCommands runs UserLeft (if the session was
\* admitted), then end(), then clientDeparture; and a session that is not in
\* the registry holds no transfer channel that has not been closed.
C19_TeardownOrder ==
    [][/\ \A s \in Slots : TeardownInOrder(s)
       /\ \A s \in Created \ Registered : sess[s].transfer \in {"nil", "closed"}
      ]_vars

\* Session s is in its command loop and holds a transfer channel.
HoldsChannel(s) ==
    sess[s].pc \in {"loop", "handler", "data"} /\ ~IsTransferClosed(sess[s])

\* Under fair scheduling Stop(), once called, returns if from some point on
\* no session in its command loop holds a transfer channel (none declares
\* one any more, and each that held one has called TransferClose or has left
\* its loop).
StopTerminates ==
    (\A s \in Slots : <>[]~HoldsChannel(s))
    => [](stop.pc # "idle" => <>(stop.pc = "returned"))

\* No step lets Stop() return while a session in the registry holds a
\* transfer channel that it keeps over that step.
StopBlockedByHeldChannel ==
    [][\A k \in DOMAIN connectionsById \cap DOMAIN connectionsById' :
          LET s == connectionsById[k]
          IN (/\ connectionsById'[k] = s
              /\ HoldsChannel(s) /\ ~IsTransferClosed(sess'[s]))
             => ~(stop.pc # "returned" /\ stop'.pc = "returned")
      ]_vars

\* C20: under fair scheduling Stop() returns if from some point on no
\* session declares a transfer channel and every session that holds one
\* calls TransferClose or leaves its command loop; and a session that keeps a
\* declared channel, neither closing it nor leaving, keeps Stop() from
\* returning for as long as it is in the registry.
C20_StopTerminatesOrIsBlocked ==
    StopTerminates /\ StopBlockedByHeldChannel

====
